---- MODULE Spec2Model ----
(***************************************************************************)
(* The place-review subsystem of tw-server (src/app/api/reviews.py): the   *)
(* request handlers create_review, get_place_reviews, update_review,       *)
(* delete_review, get_user_place_review and get_my_place_review running    *)
(* concurrently over the review store (PostgreSQL through SQLAlchemy), the *)
(* Redis cache, the place-existence oracle and the two downstream          *)
(* collaborators (rating histogram, user-preference cache).                *)
(*                                                                         *)
(* Every external call of a handler (oracle, one SQL statement or commit,  *)
(* one Redis command, one collaborator call) is one atomic step; the       *)
(* handler-local work between two calls belongs to the step before it.     *)
(***************************************************************************)
EXTENDS Integers, Sequences, FiniteSets, TLC

\* ------------------------------------------------------------------ bounds

\* Requests dispatched in one behaviour.
MaxReqs == 3

\* Calls that fail in one behaviour (a store error, a cache-service error, a
\* collaborator that fails).
MaxFaults == 1

\* The pool of request handlers (spec section 5: stateless handlers, one
\* HTTP request per invocation).
Procs == {1, 2}

\* ------------------------------------------------------------- data domains

None == "None"

\* Rows of the users table, and a JWT identity that has no row.
Users == {"u1", "u2"}
GhostUser == "u0"

\* Place ids, as the characters of the <string:place_id> path segment.  The
\* first one begins with "all", the second one is made of characters that
\* are glob syntax for redis.keys.
PlaceA == <<"a", "l", "l", "y">>
PlaceB == <<"[", "b", "]">>
Places == {PlaceA, PlaceB}

\* JSON values a request body carries under "rating": integers, a string
\* that is no number, a float (whole part and a non-zero fraction), null.
\* JFloat(w) is the float w + 0.5; JText is the string "abc".
JInt(n) == [t |-> "int", v |-> n]
JFloat(w) == [t |-> "float", v |-> w]
JText == [t |-> "text", v |-> 0]
JNull == [t |-> "null", v |-> 0]
Absent == [t |-> "absent", v |-> 0]

\* Python's int(value): the integer itself, a float truncated towards zero,
\* ValueError for a string that is no number, TypeError for None.
PyInt(j) ==
    IF j.t \in {"int", "float"} THEN [ok |-> TRUE, v |-> j.v]
    ELSE [ok |-> FALSE, v |-> 0]

\* ---------------------------------------------------------- cache key builder

\* The parameter names of a listing request in the order sorted() gives them.
NameRank == [order |-> 1, page |-> 2, size |-> 3, sort_by |-> 4]

\* sorted(params.items()): insertion sort of <<name, value>> pairs by name.
RECURSIVE InsertParam(_, _)
InsertParam(pair, sorted) ==
    IF sorted = <<>> THEN <<pair>>
    ELSE IF NameRank[pair[1]] <= NameRank[Head(sorted)[1]]
         THEN <<pair>> \o sorted
         ELSE <<Head(sorted)>> \o InsertParam(pair, Tail(sorted))

\* A key builder that takes the parameters in the order they were written.
SortParamsAsWritten(params) == params

RECURSIVE SortParams(_)
SortParams(params) ==
    IF params = <<>> THEN <<>>
    ELSE InsertParam(Head(params), SortParams(Tail(params)))

\* "&".join(query_params), as the tokens of the query string.
RECURSIVE JoinParams(_)
JoinParams(sorted) ==
    IF sorted = <<>> THEN <<>>
    ELSE LET tok == sorted[1][1] \o "=" \o sorted[1][2]
         IN  IF Len(sorted) = 1 THEN <<tok>>
             ELSE <<tok, "&">> \o JoinParams(Tail(sorted))

\* A key builder without the early return for no parameters.
get_reviews_cache_key_always_query(place_id, params) ==
    <<"url:/reviews/">> \o place_id \o <<"?">> \o JoinParams(SortParams(params))

\* A key is the sequence of its pieces: the literal prefix, the characters of
\* the place id, and the tokens of the query string.
get_reviews_cache_key(place_id, params) ==
    LET base_key == <<"url:/reviews/">> \o place_id
    IN  IF params = <<>> THEN base_key
        ELSE base_key \o <<"?">> \o JoinParams(SortParams(params))

get_all_reviews_cache_key(params) ==
    LET base_key == <<"url:/reviews/", "a", "l", "l">>
    IN  IF params = <<>> THEN base_key
        ELSE base_key \o <<"?">> \o JoinParams(SortParams(params))

\* The three place-entity keys invalidate_caches names.
place_data_keys(place_id) ==
    { <<"hotels:">> \o place_id,
      <<"restaurants:">> \o place_id,
      <<"things-to-do:">> \o place_id }

\* The key of one listing request (reviews.py 285-287); ToString is the
\* str(value) of the f-string for the two integers.
ListingKey(place_id, page, size, sort_by, order) ==
    get_reviews_cache_key(place_id,
        << <<"page", ToString(page)>>, <<"size", ToString(size)>>,
           <<"sort_by", sort_by>>, <<"order", order>> >>)

\* ------------------------------------------------------- redis glob matching

\* The index of the "]" closing the class opened before position i, or 0.
RECURSIVE ClassEnd(_, _)
ClassEnd(pat, i) ==
    IF i > Len(pat) THEN 0
    ELSE IF pat[i] = "]" THEN i
    ELSE ClassEnd(pat, i + 1)

\* redis KEYS pattern matching (stringmatchlen): "*" any run, "?" any one
\* piece, "[...]" one piece out of the class, anything else itself.  The
\* patterns of this module reach the query-string tokens only through "*".
RECURSIVE GlobMatch(_, _)
GlobMatch(pat, str) ==
    IF pat = <<>> THEN str = <<>>
    ELSE IF Head(pat) = "*"
         THEN \E k \in 0..Len(str) :
                 GlobMatch(Tail(pat), SubSeq(str, k + 1, Len(str)))
    ELSE IF str = <<>> THEN FALSE
    ELSE IF Head(pat) = "?"
         THEN GlobMatch(Tail(pat), Tail(str))
    ELSE IF Head(pat) = "[" /\ ClassEnd(pat, 2) > 0
         THEN LET e == ClassEnd(pat, 2)
              IN  /\ \E i \in 2..(e - 1) : pat[i] = Head(str)
                  /\ GlobMatch(SubSeq(pat, e + 1, Len(pat)), Tail(str))
    ELSE /\ Head(pat) = Head(str)
         /\ GlobMatch(Tail(pat), Tail(str))

\* redis.keys(pattern) over the keys the cache holds.
RedisKeys(cacheNow, pat) == { k \in DOMAIN cacheNow : GlobMatch(pat, k) }

place_review_pattern(place_id) == <<"url:/reviews/">> \o place_id \o <<"*">>
all_reviews_pattern == <<"url:/reviews/", "a", "l", "l", "*">>

\* ------------------------------------------------------------- review store

\* A row of user_reviews; id 0 stands for "no row" (first() returning None).
NoRow == [id |-> 0, user_id |-> None, place_id |-> <<>>, rating |-> 0,
          review |-> None, created_at |-> 0, updated_at |-> 0]

\* UserReview.query.filter_by(user_id=..., place_id=...).first()
FindReview(rows, user_id, place_id) ==
    LET hits == { r \in rows : r.user_id = user_id /\ r.place_id = place_id }
    IN  IF hits = {} THEN NoRow ELSE CHOOSE r \in hits : TRUE

\* .filter(UserReview.place_id == place_id)
PlaceRows(rows, place_id) == { r \in rows : r.place_id = place_id }

\* The value of the sort column of a row (reviews.py 309-314).
SortColumn(r, sort_by) ==
    IF sort_by = "rating" THEN r.rating
    ELSE IF sort_by = "updated_at" THEN r.updated_at
    ELSE r.created_at

\* Every order the database may return the rows in under ORDER BY: rows
\* with equal sort values come in any order.
OrderBy(rows, sort_by, order) ==
    LET n == Cardinality(rows)
    IN  { s \in [1..n -> rows] :
            /\ \A i, j \in 1..n : i # j => s[i] # s[j]
            /\ \A i, j \in 1..n : i < j =>
                  IF order = "asc"
                  THEN SortColumn(s[i], sort_by) <= SortColumn(s[j], sort_by)
                  ELSE SortColumn(s[i], sort_by) >= SortColumn(s[j], sort_by) }

\* query.offset(offset).limit(size).all()
OffsetLimit(s, offset, size) ==
    SubSeq(s, offset + 1, IF offset + size < Len(s) THEN offset + size ELSE Len(s))

\* The paging envelope; page 0 stands for "no envelope".
NoPayload == [items |-> <<>>, page |-> 0, size |-> 0, total_count |-> 0,
              total_pages |-> 0]

create_paging(data, page, size, total_count) ==
    [items |-> data, page |-> page, size |-> size, total_count |-> total_count,
     total_pages |-> (total_count + size - 1) \div size]

\* The rating histogram collaborator: per place, the net count per rating.
update_place_rating_histogram(h, place_id, old_rating, new_rating) ==
    LET dec == IF old_rating = 0 THEN h[place_id]
               ELSE [h[place_id] EXCEPT ![old_rating] = @ - 1]
        inc == IF new_rating = 0 THEN dec
               ELSE [dec EXCEPT ![new_rating] = @ + 1]
    IN  [h EXCEPT ![place_id] = inc]

\* ------------------------------------------------------------------- state

VARIABLES
    store,    \* the rows of user_reviews
    cache,    \* redis: key -> [val: json of the envelope, ttl, ver: see below]
    hist,     \* the rating histogram, per place
    pref,     \* per user, the commit count its preference cache was built at
    clock,    \* commits that changed a row so far; stamps ids and timestamps
    pver,     \* per place, the clock of the last commit that changed its rows
    retver,   \* per place, the highest pver whose write request has returned 2xx
    ndeletes, \* commits that deleted a row so far
    nreq,     \* requests dispatched so far
    faults,   \* calls that have failed so far
    maxconc,  \* handlers that may run at once
    req,      \* per handler, the request it serves
    pc,       \* per handler, the call it makes next
    loc,      \* per handler, its local variables
    log,      \* per handler, the calls of this request so far, with their outcome
    resp,     \* per handler, the response of the finished request
    call      \* a call of one function on its own: arguments and result

shared == <<store, cache, hist, pref>>
ghost == <<clock, pver, retver, ndeletes>>
vars == <<store, cache, hist, pref, clock, pver, retver, ndeletes, nreq, faults,
          maxconc,
          req, pc, loc, log, resp, call>>

NoBody == [kind |-> "none", rating |-> Absent, review |-> None]
NoReq == [op |-> "none", n |-> 0, user |-> None, place |-> <<>>,
          body |-> NoBody, page |-> 0, size |-> 0, sort_by |-> None,
          order |-> None, startret |-> 0, conc |-> {}, pre |-> FALSE,
          dels |-> 0]
NoLoc == [row |-> NoRow, rating |-> 0, has_rating |-> FALSE,
          old_rating |-> 0, keys |-> {},
          total |-> 0, ver |-> 0, payload |-> NoPayload]
NoResp == [status |-> 0, kind |-> "none", row |-> NoRow,
           payload |-> NoPayload, ver |-> 0]

Response(status, kind) ==
    [status |-> status, kind |-> kind, row |-> NoRow, payload |-> NoPayload,
     ver |-> 0]

NoCall == [fn |-> "none"]

EmptyHistogram == [pl \in Places |-> [r \in 1..5 |-> 0]]

\* The rows the database may already hold when the handlers start: none, or
\* one review written earlier (with the histogram the write left).
Row1 == [id |-> 1, user_id |-> "u1", place_id |-> PlaceA, rating |-> 3,
         review |-> "t1", created_at |-> 1, updated_at |-> 1]

InitBase ==
    /\ \/ /\ store = {}
          /\ hist = EmptyHistogram
          /\ clock = 0
          /\ pver = [pl \in Places |-> 0]
          /\ retver = [pl \in Places |-> 0]
       \/ /\ store = {Row1}
          /\ hist = update_place_rating_histogram(EmptyHistogram, PlaceA, 0, 3)
          /\ clock = 1
          /\ pver = [pl \in Places |-> IF pl = PlaceA THEN 1 ELSE 0]
          /\ retver = [pl \in Places |-> IF pl = PlaceA THEN 1 ELSE 0]
    /\ cache = <<>>
    /\ ndeletes = 0
    /\ pref = [u \in Users |-> 0]
    /\ nreq = 0
    /\ faults = 0
    /\ req = [p \in Procs |-> NoReq]
    /\ pc = [p \in Procs |-> "idle"]
    /\ loc = [p \in Procs |-> NoLoc]
    /\ log = [p \in Procs |-> <<>>]
    /\ resp = [p \in Procs |-> NoResp]
    /\ call = NoCall

Init == InitBase /\ maxconc = 2

\* The same handlers, one request at a time.
InitSeq == InitBase /\ maxconc = 1

\* ---------------------------------------------------------------- dispatch

Active(p) == pc[p] \notin {"idle", "done"}

\* A request goes to the first handler that is free.
CanStart(p) ==
    /\ ~Active(p)
    /\ nreq < MaxReqs
    /\ Cardinality({q \in Procs : Active(q)}) < maxconc
    /\ \A q \in Procs : q < p => Active(q)

\* The request record of a new request: its number, the requests in flight
\* when it arrives, the writes to its place that have already returned,
\* whether its user has a review of its place, and the deletes so far.
NewReq(op, user, place, body, page, size, sort_by, order) ==
    [op |-> op, n |-> nreq + 1, user |-> user, place |-> place, body |-> body,
     page |-> page, size |-> size, sort_by |-> sort_by, order |-> order,
     startret |-> retver[place],
     conc |-> { req[q].n : q \in {q \in Procs : Active(q)} },
     pre |-> FindReview(store, user, place) # NoRow,
     dels |-> ndeletes]

LogEntry(step, ok) == [s |-> step, ok |-> ok]

\* The handler p takes request r; its local part up to the first external
\* call has run: either it is rejected with `rejected`, or it goes on at
\* `first` with the validated rating.
Dispatch(p, r, entries, rejected, first, l) ==
    /\ CanStart(p)
    /\ req' = [req EXCEPT ![p] = r]
    /\ log' = [log EXCEPT ![p] = entries]
    /\ nreq' = nreq + 1
    /\ IF rejected # NoResp
       THEN /\ pc' = [pc EXCEPT ![p] = "done"]
            /\ resp' = [resp EXCEPT ![p] = rejected]
            /\ loc' = [loc EXCEPT ![p] = NoLoc]
       ELSE /\ pc' = [pc EXCEPT ![p] = first]
            /\ resp' = [resp EXCEPT ![p] = NoResp]
            /\ loc' = [loc EXCEPT ![p] = l]
    /\ UNCHANGED <<shared, ghost, faults, maxconc, call>>

\* The request bodies of the model.
Body(rating, review) == [kind |-> "obj", rating |-> rating, review |-> review]
BadBodies == { [kind |-> "bad", rating |-> Absent, review |-> None],
               [kind |-> "empty", rating |-> Absent, review |-> None] }
BadRatings == { JInt(0), JInt(6), JText, JNull }

\* The requests of the model, as <<user, place, body>>: the bodies that pass
\* validation for every user and place, the others for one of each.
CreateInputs ==
    { <<u, pl, Body(r, "t1")>> : u \in Users, pl \in Places,
                                 r \in {JInt(3), JFloat(5)} }
    \cup { <<GhostUser, PlaceA, Body(JInt(3), "t1")>> }
    \cup { <<"u1", PlaceA, b>> :
             b \in BadBodies \cup { Body(r, "t1") : r \in BadRatings }
                   \cup { Body(Absent, "t1"), Body(JInt(3), None) } }
UpdateInputs ==
    { <<u, pl, b>> : u \in Users, pl \in Places,
                     b \in { Body(JInt(5), None), Body(Absent, "t2"),
                             Body(JInt(3), "t2") } }
    \cup { <<"u1", PlaceA, b>> :
             b \in BadBodies \cup { Body(r, None) : r \in BadRatings }
                   \cup { Body(Absent, None), Body(JFloat(5), None) } }

\* The listing requests of the model: <<page, size, sort_by, order>>.
\* Those that pass validation go to every place, the others to one.
ListParams ==
    { <<1, 2, "created_at", "desc">>, <<1, 1, "rating", "asc">>,
      <<2, 1, "rating", "asc">> }
BadListParams ==
    { <<0, 2, "created_at", "desc">>, <<1, 0, "created_at", "desc">>,
      <<1, 101, "created_at", "desc">>, <<1, 2, "bogus", "desc">>,
      <<1, 2, "created_at", "bogus">> }
ListInputs ==
    { <<pl, q>> : pl \in Places, q \in ListParams }
    \cup { <<PlaceA, q>> : q \in BadListParams }

CoreBodies ==
    { Body(JInt(3), "t1"), Body(JFloat(5), "t1"), Body(JInt(5), None),
      Body(Absent, "t2"), Body(JInt(3), "t2") }

\* reviews.py 154-162 and 387-397: int(data['rating']) and the range check.
RatingCheck(j) ==
    LET i == PyInt(j)
    IN  IF ~i.ok THEN "RatingNotInteger"
        ELSE IF i.v < 1 \/ i.v > 5 THEN "RatingOutOfRange"
        ELSE "ok"

\* reviews.py 141-162: the checks of create_review before the oracle.
CreateValidation(body) ==
    IF body.kind = "bad" THEN "InvalidJSON"
    ELSE IF body.kind = "empty" THEN "BodyRequired"
    ELSE IF body.rating = Absent \/ body.review = None THEN "FieldsRequired"
    ELSE RatingCheck(body.rating)

\* reviews.py 371-397: the checks of update_review before the oracle.
UpdateValidation(body) ==
    IF body.kind = "bad" THEN "InvalidJSON"
    ELSE IF body.kind = "empty" THEN "BodyRequired"
    ELSE IF body.rating = Absent /\ body.review = None THEN "FieldsRequired"
    ELSE IF body.rating # Absent THEN RatingCheck(body.rating)
    ELSE "ok"

\* reviews.py 254-276: the checks of get_place_reviews before the oracle.
valid_sort_fields == {"rating", "updated_at", "created_at"}
valid_orders == {"asc", "desc"}
ListValidation(page, size, sort_by, order) ==
    IF page < 1 THEN "PageInvalid"
    ELSE IF size < 1 \/ size > 100 THEN "SizeInvalid"
    ELSE IF sort_by \notin valid_sort_fields THEN "SortInvalid"
    ELSE IF order \notin valid_orders THEN "OrderInvalid"
    ELSE "ok"

Rejection(verdict) ==
    IF verdict = "ok" THEN NoResp ELSE Response(400, verdict)

\* Concurrent handlers are explored on the requests of one user for one
\* place that pass validation; one handler at a time on all requests.
ScopePlaces == IF maxconc = 1 THEN Places ELSE {PlaceA}
ScopeUsers == IF maxconc = 1 THEN Users ELSE {"u1"}
Scope(inputs) ==
    IF maxconc = 1 THEN inputs
    ELSE { i \in inputs : i[1] = "u1" /\ i[2] = PlaceA /\ i[3] \in CoreBodies }
ScopeList(inputs) ==
    IF maxconc = 1 THEN inputs
    ELSE { i \in inputs : i[1] = PlaceA /\ i[2] \in ListParams }

StartCreate(p) ==
    \E i \in Scope(CreateInputs) :
        LET u == i[1]
            pl == i[2]
            b == i[3]
            v == CreateValidation(b)
        IN  Dispatch(p, NewReq("create_review", u, pl, b, 0, 0, None, None),
                     <<LogEntry("validate", v = "ok")>>, Rejection(v), "exists",
                     [NoLoc EXCEPT !.rating = PyInt(b.rating).v,
                                   !.has_rating = TRUE])

StartUpdate(p) ==
    \E i \in Scope(UpdateInputs) :
        LET u == i[1]
            pl == i[2]
            b == i[3]
            v == UpdateValidation(b)
        IN  Dispatch(p, NewReq("update_review", u, pl, b, 0, 0, None, None),
                     <<LogEntry("validate", v = "ok")>>, Rejection(v), "exists",
                     [NoLoc EXCEPT !.rating = PyInt(b.rating).v,
                                   !.has_rating = b.rating # Absent])

StartDelete(p) ==
    \E u \in ScopeUsers, pl \in ScopePlaces :
        Dispatch(p, NewReq("delete_review", u, pl, NoBody, 0, 0, None, None),
                 <<>>, NoResp, "exists", NoLoc)

StartList(p) ==
    \E i \in ScopeList(ListInputs) :
        LET pl == i[1]
            q == i[2]
            v == ListValidation(q[1], q[2], q[3], q[4])
        IN  Dispatch(p, NewReq("get_place_reviews", None, pl, NoBody,
                               q[1], q[2], q[3], q[4]),
                     <<LogEntry("validate", v = "ok")>>, Rejection(v), "exists",
                     NoLoc)

StartGetUser(p) ==
    \E u \in ScopeUsers, pl \in ScopePlaces :
        Dispatch(p, NewReq("get_user_place_review", u, pl, NoBody, 0, 0, None, None),
                 <<>>, NoResp, "exists", NoLoc)

StartGetMy(p) ==
    \E u \in ScopeUsers, pl \in ScopePlaces :
        Dispatch(p, NewReq("get_my_place_review", u, pl, NoBody, 0, 0, None, None),
                 <<>>, NoResp, "exists", NoLoc)

\* ------------------------------------------------------- steps shared by all

Step(p, at, op) == pc[p] = at /\ req[p].op \in op

\* The outcomes of a call that may fail: it fails only while the behaviour
\* has failures left.
Outcomes == IF faults < MaxFaults THEN BOOLEAN ELSE {TRUE}

\* The call is entered in the handler's log; `failed` says that the call
\* itself failed (not that it answered no).
Logged(p, step, ok, failed) ==
    /\ log' = [log EXCEPT ![p] = Append(@, LogEntry(step, ok))]
    /\ faults' = IF failed THEN faults + 1 ELSE faults

Goto(p, to) == pc' = [pc EXCEPT ![p] = to] /\ UNCHANGED resp

GotoKeep(p, to) == Goto(p, to) /\ UNCHANGED loc

\* The handler returns r; its local variables are gone.
Return(p, r) ==
    /\ pc' = [pc EXCEPT ![p] = "done"]
    /\ resp' = [resp EXCEPT ![p] = r]
    /\ loc' = [loc EXCEPT ![p] = NoLoc]

WriteOps == {"create_review", "update_review", "delete_review"}
AllOps == WriteOps \cup {"get_place_reviews", "get_user_place_review",
                         "get_my_place_review"}

\* A delete_review that invalidates the caches as soon as the place is known
\* to exist, before it loads and deletes the review.
AfterExistsInvalidateFirst(op) ==
    CASE op = "create_review" -> "user"
      [] op = "get_place_reviews" -> "cache_get"
      [] op = "update_review" -> "load"
      [] op = "delete_review" -> "inv_keys"
      [] OTHER -> "fetch"

\* What follows a true answer of check_place_exists in each handler.
AfterExists(op) ==
    CASE op = "create_review" -> "user"
      [] op = "get_place_reviews" -> "cache_get"
      [] op \in {"update_review", "delete_review"} -> "load"
      [] OTHER -> "fetch"

\* A get_place_reviews that goes on to the cache whatever the oracle says.
CheckPlaceExistsListingAnyway(p) ==
    /\ Step(p, "exists", AllOps)
    /\ \E b \in BOOLEAN :
          /\ Logged(p, "exists", b, FALSE)
          /\ IF b \/ req[p].op = "get_place_reviews"
             THEN GotoKeep(p, AfterExists(req[p].op))
             ELSE Return(p, Response(404, "PlaceNotFound"))
    /\ UNCHANGED <<shared, ghost, nreq, maxconc, call, req>>

\* check_place_exists(place_id): the oracle answers either way.
CheckPlaceExists(p) ==
    /\ Step(p, "exists", AllOps)
    /\ \E b \in BOOLEAN :
          /\ Logged(p, "exists", b, FALSE)
          /\ IF b THEN GotoKeep(p, AfterExists(req[p].op))
             ELSE Return(p, Response(404, "PlaceNotFound"))
    /\ UNCHANGED <<shared, ghost, nreq, maxconc, call, req>>

\* An exception no handler catches: Flask's own 500, or the blueprint's
\* exception_handler (src/app/api/__init__.py 33-37) where it is in force.
exception_handler == Response(200, "InternalServerError")
Unhandled == { Response(500, "InternalServerError"), exception_handler }

\* The response each handler builds in its except SQLAlchemyError branch.
StoreFailure(op) ==
    CASE op = "create_review" -> Response(500, "CreateFailed")
      [] op = "update_review" -> Response(500, "UpdateFailed")
      [] op = "delete_review" -> Response(500, "DeleteFailed")
      [] OTHER -> Response(500, "FetchFailed")

\* --------------------------------------------------------------- create_review

\* reviews.py 168-171: User.query...first(), outside the try block.
UserQuery(p) ==
    /\ Step(p, "user", {"create_review"})
    /\ \E ok \in Outcomes :
          /\ Logged(p, "store_read", ok, ~ok)
          /\ IF ~ok THEN \E r \in Unhandled : Return(p, r)
             ELSE IF req[p].user \notin Users
                  THEN Return(p, Response(401, "UserNotFound"))
             ELSE GotoKeep(p, "precheck")
    /\ UNCHANGED <<shared, ghost, nreq, maxconc, call, req>>

\* reviews.py 175-183: the pre-check for an existing review.
Precheck(p) ==
    /\ Step(p, "precheck", {"create_review"})
    /\ \E ok \in Outcomes :
          /\ Logged(p, "store_read", ok, ~ok)
          /\ IF ~ok THEN Return(p, StoreFailure(req[p].op))
             ELSE IF FindReview(store, req[p].user, req[p].place) # NoRow
                  THEN Return(p, Response(400, "DuplicateReview"))
             ELSE GotoKeep(p, "commit")
    /\ UNCHANGED <<shared, ghost, nreq, maxconc, call, req>>

\* The unique constraint of user_reviews on (user_id, place_id).
unique_user_review(rows, user_id, place_id) ==
    \A r \in rows : ~(r.user_id = user_id /\ r.place_id = place_id)

\* An IntegrityError branch that does not know the unique constraint by name.
IntegrityResponseUnnamed(constraint) ==
    IF constraint = "user_reviews_user_id_fkey" THEN Response(401, "UserNotFound")
    ELSE Response(400, "DataConstraint")

\* reviews.py 222-236: the response to an IntegrityError, by the constraint
\* its message names.
IntegrityResponse(constraint) ==
    IF constraint = "user_reviews_user_id_fkey" THEN Response(401, "UserNotFound")
    ELSE IF constraint = "unique_user_review" THEN Response(400, "DuplicateReview")
    ELSE Response(400, "DataConstraint")

\* The row db.session.add(review); db.session.commit() inserts.
NewRow(user_id, place_id, rating, review, now) ==
    [id |-> now, user_id |-> user_id, place_id |-> place_id, rating |-> rating,
     review |-> review, created_at |-> now, updated_at |-> now]

\* A create_review whose failed commit is not rolled back: the row stays.
CreateCommitNoRollback(p) ==
    /\ Step(p, "commit", {"create_review"})
    /\ \E ok \in Outcomes :
          LET r == req[p]
              row == NewRow(r.user, r.place, loc[p].rating, r.body.review, clock + 1)
          IN  IF ~ok
              THEN /\ Logged(p, "commit", FALSE, ~ok)
                   /\ Return(p, StoreFailure(r.op))
                   /\ store' = store \cup {row}
                   /\ UNCHANGED <<clock, pver>>
              ELSE IF ~unique_user_review(store, r.user, r.place)
              THEN /\ Logged(p, "commit", FALSE, FALSE)
                   /\ Return(p, IntegrityResponse("unique_user_review"))
                   /\ UNCHANGED <<store, clock, pver>>
              ELSE /\ Logged(p, "commit", TRUE, FALSE)
                   /\ store' = store \cup {row}
                   /\ clock' = clock + 1
                   /\ pver' = [pver EXCEPT ![r.place] = clock + 1]
                   /\ loc' = [loc EXCEPT ![p].row = row, ![p].ver = clock + 1]
                   /\ Goto(p, "hist")
    /\ UNCHANGED <<cache, hist, pref, retver, ndeletes, nreq, maxconc, call, req>>

\* A create_review whose commit overwrites the review its user already has
\* of the place, and goes on as after an insert.
CreateCommitOverwrite(p) ==
    /\ Step(p, "commit", {"create_review"})
    /\ \E ok \in Outcomes :
          LET r == req[p]
              row == NewRow(r.user, r.place, loc[p].rating, r.body.review, clock + 1)
              had == { x \in store : x.user_id = r.user /\ x.place_id = r.place }
          IN  IF ~ok
              THEN /\ Logged(p, "commit", FALSE, ~ok)
                   /\ Return(p, StoreFailure(r.op))
                   /\ UNCHANGED <<store, clock, pver>>
              ELSE /\ Logged(p, "commit", TRUE, FALSE)
                   /\ store' = (store \ had) \cup {row}
                   /\ clock' = clock + 1
                   /\ pver' = [pver EXCEPT ![r.place] = clock + 1]
                   /\ loc' = [loc EXCEPT ![p].row = row, ![p].ver = clock + 1]
                   /\ Goto(p, "hist")
    /\ UNCHANGED <<cache, hist, pref, retver, ndeletes, nreq, maxconc, call, req>>

\* reviews.py 186-194: add and commit; the commit fails on a store error or
\* on the unique constraint, and otherwise inserts the row.
CreateCommit(p) ==
    /\ Step(p, "commit", {"create_review"})
    /\ \E ok \in Outcomes :
          LET r == req[p]
              row == NewRow(r.user, r.place, loc[p].rating, r.body.review, clock + 1)
          IN  IF ~ok
              THEN /\ Logged(p, "commit", FALSE, ~ok)
                   /\ Return(p, StoreFailure(r.op))
                   /\ UNCHANGED <<store, clock, pver>>
              ELSE IF ~unique_user_review(store, r.user, r.place)
              THEN /\ Logged(p, "commit", FALSE, FALSE)
                   /\ Return(p, IntegrityResponse("unique_user_review"))
                   /\ UNCHANGED <<store, clock, pver>>
              ELSE /\ Logged(p, "commit", TRUE, FALSE)
                   /\ store' = store \cup {row}
                   /\ clock' = clock + 1
                   /\ pver' = [pver EXCEPT ![r.place] = clock + 1]
                   /\ loc' = [loc EXCEPT ![p].row = row, ![p].ver = clock + 1]
                   /\ Goto(p, "hist")
    /\ UNCHANGED <<cache, hist, pref, retver, ndeletes, nreq, maxconc, call, req>>

\* ------------------------------------------------- propagation after a commit

\* The arguments each handler passes to update_place_rating_histogram
\* (reviews.py 197, 427-429, 490); 0 stands for an argument left out.
HistogramArgs(op, l) ==
    CASE op = "create_review" -> [old |-> 0, new |-> l.rating]
      [] op = "update_review" -> [old |-> l.old_rating, new |-> l.row.rating]
      [] OTHER -> [old |-> l.old_rating, new |-> 0]

\* Handlers that stop, without a response of their own, when the histogram
\* update has failed.
AfterHistogramAbort(ok) == IF ok THEN "inv_keys" ELSE "done"

\* Handlers that leave out invalidate_caches when the histogram update has
\* failed.
AfterHistogramSkip(ok) == IF ok THEN "inv_keys" ELSE "pref"

\* The handlers call invalidate_caches whatever the histogram update did.
AfterHistogram(ok) == "inv_keys"

\* update_place_rating_histogram(...): the collaborator applies the update, or
\* fails, logs the failure and returns.
UpdateHistogram(p) ==
    /\ Step(p, "hist", WriteOps)
    /\ \E ok \in Outcomes :
          LET a == HistogramArgs(req[p].op, loc[p])
          IN  /\ Logged(p, "hist", ok, ~ok)
              /\ hist' = IF ok
                         THEN update_place_rating_histogram(hist, req[p].place, a.old, a.new)
                         ELSE hist
              /\ GotoKeep(p, AfterHistogram(ok))
    /\ UNCHANGED <<store, cache, pref, ghost, nreq, maxconc, call, req>>

\* invalidate_caches returns to its caller from its except branch, and the
\* caller goes on with update_user_preference_cache.
AfterInvalidate == "pref"

\* reviews.py 97-104: get_redis() and redis.keys(place_review_pattern).
InvalidateKeys(p) ==
    /\ Step(p, "inv_keys", WriteOps)
    /\ \E ok \in Outcomes :
          /\ Logged(p, "inv_keys", ok, ~ok)
          /\ IF ok
             THEN /\ loc' = [loc EXCEPT ![p].keys =
                                RedisKeys(cache, place_review_pattern(req[p].place))]
                  /\ Goto(p, "inv_del")
             ELSE /\ Goto(p, AfterInvalidate)
                  /\ UNCHANGED loc
    /\ UNCHANGED <<shared, ghost, nreq, maxconc, call, req>>

\* A delete that removes one key of those named per call.
RedisDeleteOne(cacheNow, ks) ==
    LET found == ks \cap DOMAIN cacheNow
    IN  IF found = {} THEN cacheNow
        ELSE LET k1 == CHOOSE k \in found : TRUE
             IN  [k \in (DOMAIN cacheNow) \ {k1} |-> cacheNow[k]]

\* A function without the keys in ks: redis.delete(*ks).
RedisDelete(cacheNow, ks) == [k \in (DOMAIN cacheNow) \ ks |-> cacheNow[k]]

\* reviews.py 106-120: the place-entity keys are added and all are deleted
\* by one call.
InvalidateDelete(p) ==
    /\ Step(p, "inv_del", WriteOps)
    /\ \E ok \in Outcomes :
          /\ Logged(p, "inv_del", ok, ~ok)
          /\ IF ok
             THEN /\ cache' = RedisDelete(cache,
                                  loc[p].keys \cup place_data_keys(req[p].place))
                  /\ Goto(p, "inv_all_keys")
             ELSE /\ Goto(p, AfterInvalidate)
                  /\ UNCHANGED cache
    /\ UNCHANGED <<store, hist, pref, ghost, nreq, maxconc, call, req, loc>>

\* reviews.py 122-124: redis.keys(all_reviews_pattern).
InvalidateAllKeys(p) ==
    /\ Step(p, "inv_all_keys", WriteOps)
    /\ \E ok \in Outcomes :
          /\ Logged(p, "inv_all_keys", ok, ~ok)
          /\ IF ok
             THEN LET ks == RedisKeys(cache, all_reviews_pattern)
                  IN  /\ loc' = [loc EXCEPT ![p].keys = ks]
                      /\ Goto(p, IF ks = {} THEN AfterInvalidate ELSE "inv_all_del")
             ELSE /\ Goto(p, AfterInvalidate)
                  /\ UNCHANGED loc
    /\ UNCHANGED <<shared, ghost, nreq, maxconc, call, req>>

\* reviews.py 125-129: redis.delete(*all_reviews_keys).
InvalidateAllDelete(p) ==
    /\ Step(p, "inv_all_del", WriteOps)
    /\ \E ok \in Outcomes :
          /\ Logged(p, "inv_all_del", ok, ~ok)
          /\ cache' = IF ok THEN RedisDelete(cache, loc[p].keys) ELSE cache
          /\ Goto(p, AfterInvalidate)
    /\ UNCHANGED <<store, hist, pref, ghost, nreq, maxconc, call, req, loc>>

\* The response of a write that went through (reviews.py 210-220, 442-455,
\* 503).
SuccessResponse(op, row) ==
    CASE op = "create_review" -> [Response(201, "review") EXCEPT !.row = row]
      [] op = "update_review" -> [Response(200, "review") EXCEPT !.row = row]
      [] OTHER -> Response(200, "deleted")

Max(a, b) == IF a > b THEN a ELSE b

\* update_user_preference_cache(user_id), which applies or fails like the
\* histogram update, and the return of the handler.
UpdatePreference(p) ==
    /\ Step(p, "pref", WriteOps)
    /\ \E ok \in Outcomes :
          /\ Logged(p, "pref", ok, ~ok)
          /\ pref' = IF ok THEN [pref EXCEPT ![req[p].user] = clock] ELSE pref
          /\ Return(p, SuccessResponse(req[p].op, loc[p].row))
          /\ retver' = [retver EXCEPT ![req[p].place] = Max(@, loc[p].ver)]
    /\ UNCHANGED <<store, cache, hist, clock, pver, ndeletes, nreq, maxconc, call, req>>

\* ----------------------------------------------- update_review, delete_review

\* An update or delete that, finding no review, goes on to invalidate_caches
\* in place of answering 404.
LoadReviewInvalidateAnyway(p) ==
    /\ Step(p, "load", {"update_review", "delete_review"})
    /\ \E ok \in Outcomes :
          LET row == FindReview(store, req[p].user, req[p].place)
          IN  /\ Logged(p, "store_read", ok, ~ok)
              /\ IF ~ok THEN Return(p, StoreFailure(req[p].op))
                 ELSE IF row = NoRow
                      THEN GotoKeep(p, "inv_keys")
                 ELSE /\ loc' = [loc EXCEPT ![p].row = row,
                                             ![p].old_rating = row.rating]
                      /\ Goto(p, "commit")
    /\ UNCHANGED <<shared, ghost, nreq, maxconc, call, req>>

\* reviews.py 405-415 and 475-483: the review is loaded and its rating kept.
LoadReview(p) ==
    /\ Step(p, "load", {"update_review", "delete_review"})
    /\ \E ok \in Outcomes :
          LET row == FindReview(store, req[p].user, req[p].place)
          IN  /\ Logged(p, "store_read", ok, ~ok)
              /\ IF ~ok THEN Return(p, StoreFailure(req[p].op))
                 ELSE IF row = NoRow
                      THEN Return(p, Response(404, "ReviewNotFound"))
                 ELSE /\ loc' = [loc EXCEPT ![p].row = row,
                                             ![p].old_rating = row.rating]
                      /\ Goto(p, "commit")
    /\ UNCHANGED <<shared, ghost, nreq, maxconc, call, req>>

\* reviews.py 417-421: the fields the request supplies are assigned.
Assigned(row, body, rating) ==
    [row EXCEPT !.rating = IF body.rating # Absent THEN rating ELSE @,
                !.review = IF body.review # None THEN body.review ELSE @]

\* An update that calls the histogram after every commit.
AfterUpdateCommitAlways(body, old_rating, new_rating) == "hist"

\* reviews.py 425-426: the histogram is updated only if the rating changed.
AfterUpdateCommit(body, old_rating, new_rating) ==
    IF body.rating # Absent /\ old_rating # new_rating THEN "hist" ELSE "inv_keys"

\* reviews.py 423: the commit writes the columns whose value changed, to the
\* row with the loaded id; it fails on a store error and when that row is
\* gone (StaleDataError), and writes nothing when no column changed.
UpdateCommit(p) ==
    /\ Step(p, "commit", {"update_review"})
    /\ \E ok \in Outcomes :
          LET r == req[p]
              old == loc[p].row
              new == Assigned(old, r.body, loc[p].rating)
              cur == { x \in store : x.id = old.id }
              next == AfterUpdateCommit(r.body, loc[p].old_rating, new.rating)
          IN  IF ~ok \/ (new # old /\ cur = {})
              THEN /\ Logged(p, "commit", FALSE, ~ok)
                   /\ Return(p, StoreFailure(r.op))
                   /\ UNCHANGED <<store, clock, pver>>
              ELSE IF new = old
              THEN /\ Logged(p, "commit", TRUE, FALSE)
                   /\ loc' = [loc EXCEPT ![p].ver = pver[r.place]]
                   /\ Goto(p, next)
                   /\ UNCHANGED <<store, clock, pver>>
              ELSE LET x == CHOOSE x \in cur : TRUE
                       written ==
                           [x EXCEPT !.rating = IF new.rating # old.rating
                                               THEN new.rating ELSE @,
                                     !.review = IF new.review # old.review
                                               THEN new.review ELSE @,
                                     !.updated_at = clock + 1]
                   IN  /\ Logged(p, "commit", TRUE, FALSE)
                       /\ store' = (store \ {x}) \cup {written}
                       /\ clock' = clock + 1
                       /\ pver' = [pver EXCEPT ![r.place] = clock + 1]
                       /\ loc' = [loc EXCEPT ![p].row =
                                       [new EXCEPT !.updated_at = clock + 1],
                                             ![p].ver = clock + 1]
                       /\ Goto(p, next)
    /\ UNCHANGED <<cache, hist, pref, retver, ndeletes, nreq, maxconc, call, req>>

\* reviews.py 486-487: the row with the loaded id is deleted; the commit
\* fails on a store error, and goes through when the row is already gone.
DeleteCommit(p) ==
    /\ Step(p, "commit", {"delete_review"})
    /\ \E ok \in Outcomes :
          LET r == req[p]
              cur == { x \in store : x.id = loc[p].row.id }
          IN  IF ~ok
              THEN /\ Logged(p, "commit", FALSE, ~ok)
                   /\ Return(p, StoreFailure(r.op))
                   /\ UNCHANGED <<store, clock, pver, ndeletes>>
              ELSE IF cur = {}
              THEN /\ Logged(p, "commit", TRUE, FALSE)
                   /\ loc' = [loc EXCEPT ![p].ver = pver[r.place]]
                   /\ Goto(p, "hist")
                   /\ UNCHANGED <<store, clock, pver, ndeletes>>
              ELSE /\ Logged(p, "commit", TRUE, FALSE)
                   /\ store' = store \ cur
                   /\ ndeletes' = ndeletes + 1
                   /\ clock' = clock + 1
                   /\ pver' = [pver EXCEPT ![r.place] = clock + 1]
                   /\ loc' = [loc EXCEPT ![p].ver = clock + 1]
                   /\ Goto(p, "hist")
    /\ UNCHANGED <<cache, hist, pref, retver, nreq, maxconc, call, req>>

\* ----------------------------------------------------------- get_place_reviews

\* A listing request whose cache key leaves the order out.
CacheKeyWithoutOrder(r) ==
    get_reviews_cache_key(r.place,
        << <<"page", ToString(r.page)>>, <<"size", ToString(r.size)>>,
           <<"sort_by", r.sort_by>> >>)

CacheKey(r) == ListingKey(r.place, r.page, r.size, r.sort_by, r.order)

\* json.dumps(reviews) and json.loads(cached_data) (reviews.py 84 and 63):
\* the envelope holds strings, integers and lists of objects of these, which
\* the text carries unchanged; the text is kept apart from the value by its
\* tag.
json_dumps(v) == [json |-> v]
json_loads(text) == text.json

\* cache_reviews(cache_key, reviews, expire_seconds=3600), reviews.py 78.
expire_seconds == 3600

\* A get_cached_reviews whose exception reaches the handler's caller.
CacheGetFailClosed(p) ==
    /\ Step(p, "cache_get", {"get_place_reviews"})
    /\ \E ok \in Outcomes :
          LET k == CacheKey(req[p])
          IN  /\ Logged(p, "cache_get", ok, ~ok)
              /\ IF ~ok THEN Return(p, Response(500, "InternalServerError"))
                 ELSE IF k \in DOMAIN cache
                 THEN Return(p, [Response(200, "cached") EXCEPT
                                    !.payload = json_loads(cache[k].val),
                                    !.ver = cache[k].ver])
                 ELSE GotoKeep(p, "count")
    /\ UNCHANGED <<shared, ghost, nreq, maxconc, call, req>>

\* reviews.py 57-75 and 288-290: get_cached_reviews; an exception is a miss.
CacheGet(p) ==
    /\ Step(p, "cache_get", {"get_place_reviews"})
    /\ \E ok \in Outcomes :
          LET k == CacheKey(req[p])
          IN  /\ Logged(p, "cache_get", ok, ~ok)
              /\ IF ok /\ k \in DOMAIN cache
                 THEN Return(p, [Response(200, "cached") EXCEPT
                                    !.payload = json_loads(cache[k].val),
                                    !.ver = cache[k].ver])
                 ELSE GotoKeep(p, "count")
    /\ UNCHANGED <<shared, ghost, nreq, maxconc, call, req>>

\* reviews.py 295-299: the count of the place's reviews.
CountReviews(p) ==
    /\ Step(p, "count", {"get_place_reviews"})
    /\ \E ok \in Outcomes :
          /\ Logged(p, "store_read", ok, ~ok)
          /\ IF ~ok THEN Return(p, StoreFailure(req[p].op))
             ELSE /\ loc' = [loc EXCEPT
                               ![p].total = Cardinality(PlaceRows(store, req[p].place)),
                               ![p].ver = pver[req[p].place]]
                  /\ Goto(p, "query")
    /\ UNCHANGED <<shared, ghost, nreq, maxconc, call, req>>

\* reviews.py 302-348: the page of reviews and the envelope around it.
QueryReviews(p) ==
    /\ Step(p, "query", {"get_place_reviews"})
    /\ \E ok \in Outcomes :
          /\ Logged(p, "store_read", ok, ~ok)
          /\ IF ~ok THEN Return(p, StoreFailure(req[p].op))
             ELSE \E s \in OrderBy(PlaceRows(store, req[p].place),
                                   req[p].sort_by, req[p].order) :
                    LET r == req[p]
                        offset == (r.page - 1) * r.size
                    IN  /\ loc' = [loc EXCEPT ![p].payload =
                                      create_paging(OffsetLimit(s, offset, r.size),
                                                    r.page, r.size, loc[p].total)]
                        /\ Goto(p, "cache_set")
    /\ UNCHANGED <<shared, ghost, nreq, maxconc, call, req>>

\* redis.setex(cache_key, expire_seconds, json.dumps(reviews))
RedisSetex(cacheNow, k, entry) ==
    [x \in (DOMAIN cacheNow) \cup {k} |-> IF x = k THEN entry ELSE cacheNow[x]]

\* A cache_reviews that writes the entry with no expiry (redis.set).
CacheSetNoExpiry(p) ==
    /\ Step(p, "cache_set", {"get_place_reviews"})
    /\ \E ok \in Outcomes :
          LET entry == [val |-> json_dumps(loc[p].payload), ver |-> loc[p].ver,
                        ttl |-> 0]
          IN  /\ Logged(p, "cache_set", ok, ~ok)
              /\ cache' = IF ok THEN RedisSetex(cache, CacheKey(req[p]), entry)
                          ELSE cache
              /\ Return(p, [Response(200, "listing") EXCEPT
                                !.payload = loc[p].payload, !.ver = loc[p].ver])
    /\ UNCHANGED <<store, hist, pref, ghost, nreq, maxconc, call, req>>

\* reviews.py 78-90 and 350-358: cache_reviews, whose failure is logged, and
\* the return of the envelope.
CacheSet(p) ==
    /\ Step(p, "cache_set", {"get_place_reviews"})
    /\ \E ok \in Outcomes :
          LET entry == [val |-> json_dumps(loc[p].payload), ver |-> loc[p].ver,
                        ttl |-> expire_seconds]
          IN  /\ Logged(p, "cache_set", ok, ~ok)
              /\ cache' = IF ok THEN RedisSetex(cache, CacheKey(req[p]), entry)
                          ELSE cache
              /\ Return(p, [Response(200, "listing") EXCEPT
                                !.payload = loc[p].payload, !.ver = loc[p].ver])
    /\ UNCHANGED <<store, hist, pref, ghost, nreq, maxconc, call, req>>

\* The expiry of an entry that was written with one (setex) runs out, and
\* redis drops the entry.
Expire ==
    /\ \E k \in DOMAIN cache : /\ cache[k].ttl > 0
                                /\ cache' = RedisDelete(cache, {k})
    /\ UNCHANGED <<store, hist, pref, ghost, nreq, faults, maxconc, call, req, pc, loc,
                   log, resp>>

\* ------------------------- get_user_place_review, get_my_place_review

NotFoundKind(op) ==
    IF op = "get_my_place_review" THEN "NotReviewedYet" ELSE "ReviewNotFound"

\* reviews.py 619-648 and 668-699: the review of (user, place) or 404.
FetchReview(p) ==
    /\ Step(p, "fetch", {"get_user_place_review", "get_my_place_review"})
    /\ \E ok \in Outcomes :
          LET row == FindReview(store, req[p].user, req[p].place)
          IN  /\ Logged(p, "store_read", ok, ~ok)
              /\ IF ~ok THEN Return(p, StoreFailure(req[p].op))
                 ELSE IF row = NoRow
                      THEN Return(p, Response(404, NotFoundKind(req[p].op)))
                 ELSE Return(p, [Response(200, "review") EXCEPT !.row = row])
    /\ UNCHANGED <<shared, ghost, nreq, maxconc, call, req>>

\* ------------------------------------------------------------ specification

Next ==
    \/ \E p \in Procs : StartCreate(p)
    \/ \E p \in Procs : StartUpdate(p)
    \/ \E p \in Procs : StartDelete(p)
    \/ \E p \in Procs : StartList(p)
    \/ \E p \in Procs : StartGetUser(p)
    \/ \E p \in Procs : StartGetMy(p)
    \/ \E p \in Procs : CheckPlaceExists(p)
    \/ \E p \in Procs : UserQuery(p)
    \/ \E p \in Procs : Precheck(p)
    \/ \E p \in Procs : CreateCommit(p)
    \/ \E p \in Procs : LoadReview(p)
    \/ \E p \in Procs : UpdateCommit(p)
    \/ \E p \in Procs : DeleteCommit(p)
    \/ \E p \in Procs : UpdateHistogram(p)
    \/ \E p \in Procs : InvalidateKeys(p)
    \/ \E p \in Procs : InvalidateDelete(p)
    \/ \E p \in Procs : InvalidateAllKeys(p)
    \/ \E p \in Procs : InvalidateAllDelete(p)
    \/ \E p \in Procs : UpdatePreference(p)
    \/ \E p \in Procs : CacheGet(p)
    \/ \E p \in Procs : CountReviews(p)
    \/ \E p \in Procs : QueryReviews(p)
    \/ \E p \in Procs : CacheSet(p)
    \/ \E p \in Procs : FetchReview(p)
    \/ Expire

Spec == Init /\ [][Next]_vars

SpecSeq == InitSeq /\ [][Next]_vars

\* The keys the listing requests of the model are cached under.
CachedKeys ==
    { ListingKey(pl, q[1], q[2], q[3], q[4]) : pl \in Places, q \in ListParams }

\* One request at a time, with redis dropping every entry whose expiry is
\* set: an entry that stays in the cache does not stay for ever.
SpecTtl ==
    /\ InitSeq
    /\ [][Next]_vars
    /\ \A k \in CachedKeys : WF_vars(Expire /\ k \notin DOMAIN cache')

\* ------------------------------------------- the cache functions on their own

\* The key builders and invalidate_caches called directly, on arguments and
\* cache contents the handlers above do not produce: parameters in any
\* order, place ids of which one is a prefix of another, place-entity keys
\* and all-reviews keys written by other parts of the server.

\* Parameter values, per name, as str() gives them.
ParamValues == [page |-> {"1", "2"}, size |-> {"1", "10"},
                sort_by |-> {"rating", "created_at"}, order |-> {"asc", "desc"}]
ParamNames == DOMAIN ParamValues
ParamPairs == UNION { { <<n, v>> : v \in ParamValues[n] } : n \in ParamNames }

\* The keyword arguments of one call, in the order they are written: no name
\* comes twice.
ParamSeqs ==
    { q \in UNION { [1..k -> ParamPairs] : k \in 0..Cardinality(ParamNames) } :
        \A i, j \in DOMAIN q : i # j => q[i][1] # q[j][1] }

\* Place ids for these calls: "a", "ab" (the first a prefix of the second),
\* and the glob "[b]".
KeyPlaces == { <<"a">>, <<"a", "b">>, PlaceB }

\* get_reviews_cache_key(place_id, **params)
CallReviewsKey ==
    /\ call = NoCall
    /\ \E pl \in KeyPlaces, q \in ParamSeqs :
          call' = [fn |-> "get_reviews_cache_key", place |-> pl, params |-> q,
                   result |-> get_reviews_cache_key(pl, q)]
    /\ UNCHANGED <<shared, ghost, nreq, faults, maxconc, req, pc, loc, log, resp>>

\* get_all_reviews_cache_key(**params)
CallAllReviewsKey ==
    /\ call = NoCall
    /\ \E q \in ParamSeqs :
          call' = [fn |-> "get_all_reviews_cache_key", place |-> <<>>,
                   params |-> q, result |-> get_all_reviews_cache_key(q)]
    /\ UNCHANGED <<shared, ghost, nreq, faults, maxconc, req, pc, loc, log, resp>>

\* invalidate_caches(place_id) as one call that no cache command fails
\* (reviews.py 97-129): the cache it leaves and the delete calls it issues.
invalidate_caches(cacheNow, place_id) ==
    LET place_keys == RedisKeys(cacheNow, place_review_pattern(place_id))
        keys_to_delete == place_keys \cup place_data_keys(place_id)
        afterFirst == RedisDelete(cacheNow, keys_to_delete)
        all_reviews_keys == RedisKeys(afterFirst, all_reviews_pattern)
    IN  [cache |-> IF all_reviews_keys = {} THEN afterFirst
                   ELSE RedisDelete(afterFirst, all_reviews_keys),
         deletes |-> IF all_reviews_keys = {} THEN 1 ELSE 2]

\* Keys a cache may hold when invalidate_caches is called: listings of the
\* three places, the all-reviews listing, place-entity keys.
KeyUniverse ==
    { get_reviews_cache_key(pl, q) :
        pl \in KeyPlaces, q \in { <<>>, << <<"page", "1">>, <<"size", "10">> >> } }
    \cup { get_all_reviews_cache_key(q) : q \in { <<>>, << <<"page", "1">> >> } }
    \cup { <<"hotels:">> \o pl : pl \in KeyPlaces }
    \cup { <<"things-to-do:", "a">>, <<"restaurants:", "a", "b">> }

CacheOf(ks) == [k \in ks |-> [val |-> json_dumps(NoPayload), ver |-> 0,
                              ttl |-> expire_seconds]]

CallInvalidate ==
    /\ call = NoCall
    /\ \E pl \in KeyPlaces, ks \in SUBSET KeyUniverse :
          LET r == invalidate_caches(CacheOf(ks), pl)
          IN  call' = [fn |-> "invalidate_caches", place |-> pl,
                       before |-> CacheOf(ks), after |-> r.cache,
                       deletes |-> r.deletes]
    /\ UNCHANGED <<shared, ghost, nreq, faults, maxconc, req, pc, loc, log, resp>>

InitFn == InitBase /\ maxconc = 0

NextFn ==
    \/ CallReviewsKey
    \/ CallAllReviewsKey
    \/ CallInvalidate

SpecFn == InitFn /\ [][NextFn]_vars

\* ------------------------------------------------------------------ claims

Done(p) == pc[p] = "done"
Finished(p, ops) == Done(p) /\ req[p].op \in ops

\* The steps of handler p's log, and whether one of them is (not) ok.
Steps(p) == { log[p][i].s : i \in 1..Len(log[p]) }
Has(p, step, ok) == \E i \in 1..Len(log[p]) : log[p][i] = LogEntry(step, ok)

\* The listing the store now gives for the request r: the payload is the
\* page of some ordering of the place's rows that the sort allows.
CurrentListing(r, payload) ==
    \E s \in OrderBy(PlaceRows(store, r.place), r.sort_by, r.order) :
        payload = create_paging(OffsetLimit(s, (r.page - 1) * r.size, r.size),
                                r.page, r.size,
                                Cardinality(PlaceRows(store, r.place)))

\* The last commit to the place of r had returned 2xx when r began, and no
\* commit has changed the place since.
AfterLastWrite(r) == pver[r.place] = r.startret

\* C1: Cache-invalidation completeness.  With one request at a time, a
\* get_place_reviews that begins after the last create, update or delete for
\* its place has returned 2xx, and is answered from the cache, gets the
\* listing the store gives after that write, not one cached before it
\* (stated for behaviours in which no call has failed, so with every cache
\* call of the invalidation succeeding).
C1_InvalidationComplete ==
    \A p \in Procs :
        (/\ faults = 0
         /\ Finished(p, {"get_place_reviews"})
         /\ resp[p].kind = "cached"
         /\ AfterLastWrite(req[p]))
            => CurrentListing(req[p], resp[p].payload)

\* C2: At most one review per (user_id, place_id) in the store; and of two
\* create_review requests for the same user and place that overlap, reach the
\* store without a store error, and see no delete committed since the first
\* began, at most one is answered 201 and every other with the
\* duplicate-review response; when they are the only requests so far, exactly
\* one is answered 201 unless the review was there before the first began.
StoreUnique ==
    \A r1, r2 \in store :
        (r1.user_id = r2.user_id /\ r1.place_id = r2.place_id) => r1 = r2

Overlap(p, q) == req[p].n \in req[q].conc \/ req[q].n \in req[p].conc

CreateOutcomes == {"review", "DuplicateReview", "DataConstraint"}

\* Two finished creates for the same (user, place) that ran concurrently
\* and both came to an answer about the review itself.
RacingCreates(p, q) ==
    /\ p # q
    /\ Finished(p, {"create_review"}) /\ Finished(q, {"create_review"})
    /\ req[p].user = req[q].user /\ req[p].place = req[q].place
    /\ Overlap(p, q)
    /\ req[p].n < req[q].n
    /\ ndeletes = req[p].dels
    /\ resp[p].kind \in CreateOutcomes /\ resp[q].kind \in CreateOutcomes

Created(p) == resp[p].status = 201 /\ resp[p].kind = "review"
Conflict(p) == resp[p] = Response(400, "DuplicateReview")

C2_OneReviewPerUserPlace ==
    /\ StoreUnique
    /\ \A p, q \in Procs :
          RacingCreates(p, q) =>
              /\ ~(Created(p) /\ Created(q))
              /\ Created(p) \/ Conflict(p)
              /\ Created(q) \/ Conflict(q)
              /\ (req[p].n = 1 /\ req[q].n = 2) =>
                    (req[p].pre <=> (Conflict(p) /\ Conflict(q)))

\* Two racing creates, the loser stopped by the constraint at commit, after
\* its pre-check had found no review.
C2_Witness ==
    \E p, q \in Procs :
        /\ RacingCreates(p, q)
        /\ Created(p) /\ Conflict(q)
        /\ Has(q, "commit", FALSE)

\* C3: No stale listing past a write, in any interleaving.  A
\* get_place_reviews answered 200 that began after the last write for its
\* place had returned 2xx gets the listing the store gives after that write,
\* also when a read that missed the cache overlapped the write (stated for
\* behaviours in which no call has failed).
C3_NoStaleListing ==
    \A p \in Procs :
        (/\ faults = 0
         /\ Finished(p, {"get_place_reviews"})
         /\ resp[p].status = 200
         /\ AfterLastWrite(req[p]))
            => CurrentListing(req[p], resp[p].payload)

InvalidationSteps == {"inv_keys", "inv_del", "inv_all_keys", "inv_all_del"}
PropagationSteps == {"hist", "pref"} \cup InvalidationSteps

\* The place of each call in the order validate, existence check, store
\* reads and commit, histogram, invalidation, preference refresh.
Rank(step) ==
    CASE step = "validate" -> 1
      [] step = "exists" -> 2
      [] step = "store_read" -> 3
      [] step = "commit" -> 4
      [] step = "hist" -> 5
      [] step \in InvalidationSteps -> 6
      [] step = "pref" -> 7
      [] OTHER -> 0

Before(p, j, entry) == \E i \in 1..(j - 1) : log[p][i] = entry

\* C4: Within every write request the calls come in the order validate,
\* existence check, store commit, then histogram update, cache invalidation,
\* preference refresh; validation, the existence check, the store reads and
\* the commit are followed by another call only when they succeeded; no
\* propagation call comes before the successful commit of its request; and a
\* write answered with success has committed, invalidated and refreshed.
C4_StepOrder ==
    \A p \in Procs :
        req[p].op \in WriteOps =>
            LET l == log[p]
            IN  /\ \A i \in 1..Len(l) : Rank(l[i].s) >= 1
                /\ \A i, j \in 1..Len(l) : i < j => Rank(l[i].s) <= Rank(l[j].s)
                /\ \A i \in 1..(Len(l) - 1) : Rank(l[i].s) <= 4 => l[i].ok
                /\ \A j \in 1..Len(l) :
                      Rank(l[j].s) >= 4 =>
                          /\ Before(p, j, LogEntry("exists", TRUE))
                          /\ req[p].op # "delete_review"
                                => Before(p, j, LogEntry("validate", TRUE))
                /\ \A j \in 1..Len(l) :
                      l[j].s \in PropagationSteps
                          => Before(p, j, LogEntry("commit", TRUE))
                /\ (Done(p) /\ resp[p].kind \in {"review", "deleted"})
                      => {"commit", "inv_keys", "pref"} \subseteq Steps(p)

\* A create_review that went through every step.
C4_Witness ==
    \E p \in Procs :
        /\ Finished(p, {"create_review"})
        /\ resp[p].status = 201
        /\ [i \in 1..Len(log[p]) |-> log[p][i].s]
              = <<"validate", "exists", "store_read", "store_read", "commit",
                  "hist", "inv_keys", "inv_del", "inv_all_keys", "pref">>

\* C5: When the oracle answers false, the operation returns the 404
\* place-not-found response, has made no call but its validation and the
\* oracle, and neither its dispatch nor its return changes the store, the
\* cache, the histogram or the preference cache; so a listing read returns
\* 404 also when the cache holds an entry for its key.
C5_NoCallPastOracle ==
    \A p \in Procs :
        Has(p, "exists", FALSE) =>
            /\ Done(p)
            /\ resp[p] = Response(404, "PlaceNotFound")
            /\ Steps(p) \subseteq {"validate", "exists"}
            /\ log[p][Len(log[p])] = LogEntry("exists", FALSE)

C5_NothingTouched ==
    \A p \in Procs :
        ((pc'[p] = "exists" /\ pc[p] # "exists")
            \/ (pc[p] = "exists" /\ pc'[p] = "done"))
        => shared' = shared

C5_PlaceNotFound == [](C5_NoCallPastOracle) /\ [][C5_NothingTouched]_vars

\* A listing read answered 404 while the cache holds an entry for its key.
C5_Witness ==
    \E p \in Procs :
        /\ Finished(p, {"get_place_reviews"})
        /\ resp[p] = Response(404, "PlaceNotFound")
        /\ CacheKey(req[p]) \in DOMAIN cache

IntegerRating(j) == j.t = "int" /\ j.v \in 1..5

InvalidRating(r) ==
    /\ r.op \in {"create_review", "update_review"}
    /\ r.body.kind = "obj"
    /\ r.body.rating # Absent
    /\ ~IntegerRating(r.body.rating)

InvalidListing(r) ==
    /\ r.op = "get_place_reviews"
    /\ \/ r.page < 1
       \/ r.size < 1 \/ r.size > 100
       \/ r.sort_by \notin {"rating", "updated_at", "created_at"}
       \/ r.order \notin {"asc", "desc"}

\* C6: A request with a rating that is not an integer in 1..5, or with
\* page < 1, size < 1, size > 100, an unknown sort_by or an unknown order, is
\* answered 400 and has made no call beyond its validation.
C6_InvalidRejected ==
    \A p \in Procs :
        (Done(p) /\ (InvalidRating(req[p]) \/ InvalidListing(req[p])))
            => /\ resp[p].status = 400
               /\ log[p] = <<LogEntry("validate", FALSE)>>

\* C7: When the commit of a create, update or delete fails, the request
\* returns a failure, none of the histogram update, the cache invalidation
\* and the preference refresh is called, and the failed commit leaves the
\* store, and everything derived from it, as it was.
C7_FailureResponse ==
    \A p \in Procs :
        (req[p].op \in WriteOps /\ Has(p, "commit", FALSE)) =>
            /\ Done(p)
            /\ resp[p] \in {StoreFailure(req[p].op), Response(400, "DuplicateReview")}
            /\ Steps(p) \cap PropagationSteps = {}

C7_NothingPersisted ==
    \A p \in Procs :
        (pc[p] = "commit" /\ pc'[p] = "done") => shared' = shared

C7_RollbackOnStoreError ==
    [](C7_FailureResponse) /\ [][C7_NothingPersisted]_vars

\* An update_review whose commit failed.
C7_Witness ==
    \E p \in Procs :
        /\ Finished(p, {"update_review"})
        /\ log[p][Len(log[p])] = LogEntry("commit", FALSE)
        /\ resp[p] = Response(500, "UpdateFailed")

\* The status of a write that went through.
SuccessStatus(op) == IF op = "create_review" THEN 201 ELSE 200

\* The store holds what the request of p asked for (one request at a time).
MutationInStore(p) ==
    LET r == req[p]
        row == FindReview(store, r.user, r.place)
    IN  IF r.op = "delete_review" THEN row = NoRow
        ELSE /\ row # NoRow
             /\ resp[p].row = row
             /\ r.body.rating # Absent => row.rating = PyInt(r.body.rating).v
             /\ r.body.review # None => row.review = r.body.review

PostCommitFailure(p) ==
    /\ req[p].op \in WriteOps
    /\ Has(p, "commit", TRUE)
    /\ Has(p, "hist", FALSE) \/ Has(p, "pref", FALSE)

\* C8: When the histogram update or the preference refresh fails after the
\* commit, the request still returns its success response (201 for create,
\* 200 for update and delete), the committed mutation is in the store, and
\* neither call changes the store.
C8_SuccessKept ==
    \A p \in Procs :
        (Done(p) /\ PostCommitFailure(p)) =>
            /\ resp[p].status = SuccessStatus(req[p].op)
            /\ resp[p].kind = SuccessResponse(req[p].op, NoRow).kind
            /\ MutationInStore(p)

C8_StoreKept ==
    \A p \in Procs :
        (pc[p] \in {"hist", "pref"} /\ pc'[p] # pc[p]) => store' = store

CacheSteps == {"cache_get", "cache_set"} \cup InvalidationSteps

CacheFailed(p) == \E s \in CacheSteps : Has(p, s, FALSE)

\* C10: A request one of whose cache calls failed, and none of whose store
\* reads failed, is answered as if the cache were empty: a listing read with
\* the listing read from the store, a write with its success response.
C10_CacheFailOpen ==
    \A p \in Procs :
        (CacheFailed(p) /\ ~Has(p, "store_read", FALSE)) =>
            /\ Has(p, "cache_get", FALSE) /\ ~Done(p)
                  => pc[p] \in {"count", "query", "cache_set"}
            /\ Finished(p, {"get_place_reviews"}) =>
                  /\ resp[p].status = 200
                  /\ resp[p].kind = "listing"
                  /\ resp[p].ver = pver[req[p].place]
                  /\ resp[p].payload.total_count
                        = Cardinality(PlaceRows(store, req[p].place))
            /\ Finished(p, WriteOps) =>
                  /\ resp[p].status = SuccessStatus(req[p].op)
                  /\ resp[p].kind = SuccessResponse(req[p].op, NoRow).kind

\* A listing read served a review from the store after its cache lookup
\* failed.
C10_Witness ==
    \E p \in Procs :
        /\ Finished(p, {"get_place_reviews"})
        /\ Has(p, "cache_get", FALSE)
        /\ resp[p].kind = "listing"
        /\ Len(resp[p].payload.items) > 0

\* The key the source builds for the listing request r, from the request.
RequestKey(r) == ListingKey(r.place, r.page, r.size, r.sort_by, r.order)

StepNames(p) == [i \in 1..Len(log[p]) |-> log[p][i].s]

\* A listing read answered from the cache has made no store call; one
\* answered from the store has looked up the cache, read the store and
\* written the cache, in this order.
C11_Calls ==
    \A p \in Procs :
        Finished(p, {"get_place_reviews"}) =>
            /\ resp[p].kind = "cached"
                  => StepNames(p) = <<"validate", "exists", "cache_get">>
            /\ resp[p].kind = "listing"
                  => StepNames(p) = <<"validate", "exists", "cache_get",
                                      "store_read", "store_read", "cache_set">>

\* The lookup that hits returns what the cache holds under the request's
\* key and changes nothing.
C11_Hit ==
    \A p \in Procs :
        (pc[p] = "cache_get" /\ pc'[p] = "done") =>
            /\ RequestKey(req[p]) \in DOMAIN cache
            /\ resp'[p].status = 200
            /\ resp'[p].payload = json_loads(cache[RequestKey(req[p])].val)
            /\ shared' = shared

\* The lookup that misses goes on to the store, and the write that follows
\* puts the returned envelope, which is the listing of the store, under the
\* request's key with the default expiry, and touches no other key.
C11_Miss ==
    \A p \in Procs :
        /\ (pc[p] = "cache_get" /\ pc'[p] = "count" /\ faults' = faults)
              => RequestKey(req[p]) \notin DOMAIN cache
        /\ (pc[p] = "cache_set" /\ pc'[p] = "done" /\ faults' = faults) =>
              LET k == RequestKey(req[p])
              IN  /\ resp'[p].status = 200
                  /\ CurrentListing(req[p], resp'[p].payload)
                  /\ k \in DOMAIN cache'
                  /\ cache'[k].val = json_dumps(resp'[p].payload)
                  /\ cache'[k].ttl = 3600
                  /\ \A x \in (DOMAIN cache \cup DOMAIN cache') \ {k} :
                        x \in DOMAIN cache /\ x \in DOMAIN cache'
                        /\ cache'[x] = cache[x]
                  /\ <<store, hist, pref>>' = <<store, hist, pref>>

\* C11: In get_place_reviews a cache hit for the key built from (place_id,
\* page, size, sort_by, order) returns the cached payload without any store
\* access; a miss queries the store, builds the paging envelope, writes
\* exactly that envelope under that key with the default TTL (3600 s) and
\* returns the same envelope (one request at a time).
C11_HitAndMiss == [](C11_Calls) /\ [][C11_Hit /\ C11_Miss]_vars

\* A listing with a review, answered from the cache.
C11_Witness ==
    \E p \in Procs :
        /\ Finished(p, {"get_place_reviews"})
        /\ resp[p].kind = "cached"
        /\ req[p].order = "desc"
        /\ Len(resp[p].payload.items) > 0

\* The parameter names in lexicographic order.
LexNames == <<"order", "page", "size", "sort_by">>

IsKeyCall == call.fn \in {"get_reviews_cache_key", "get_all_reviews_cache_key"}

\* The key builder of the call applied to the parameters q.
BuiltKey(q) ==
    IF call.fn = "get_reviews_cache_key"
    THEN get_reviews_cache_key(call.place, q)
    ELSE get_all_reviews_cache_key(q)

Range(q) == { q[i] : i \in DOMAIN q }

\* The names of the mapping ps in lexicographic order, then name=value
\* joined by "&".
NamesOf(ps) ==
    LET Named(n) == \E pr \in ps : pr[1] = n
    IN  SelectSeq(LexNames, Named)

RECURSIVE LexQuery(_, _)
LexQuery(names, ps) ==
    IF names = <<>> THEN <<>>
    ELSE LET pr == CHOOSE x \in ps : x[1] = Head(names)
             tok == pr[1] \o "=" \o pr[2]
         IN  IF Len(names) = 1 THEN <<tok>>
             ELSE <<tok, "&">> \o LexQuery(Tail(names), ps)

ResourcePath ==
    IF call.fn = "get_reviews_cache_key" THEN <<"url:/reviews/">> \o call.place
    ELSE <<"url:/reviews/", "a", "l", "l">>

\* C12: The key builders give the same key for the same parameter names and
\* values written in any order; with parameters, the key is the resource
\* path, "?", and the parameters in lexicographic order of name as
\* name=value joined by "&".
C12_KeyOrderIndependent ==
    IsKeyCall =>
        /\ \A q \in ParamSeqs :
              Range(q) = Range(call.params) => BuiltKey(q) = call.result
        /\ call.params # <<>> =>
              call.result = ResourcePath \o <<"?">>
                               \o LexQuery(NamesOf(Range(call.params)),
                                           Range(call.params))

\* A key built from four parameters written in another order than by name.
C12_Witness ==
    /\ call.fn = "get_reviews_cache_key"
    /\ Len(call.params) = 4
    /\ call.params[1][1] = "sort_by"
    /\ call.params[4][1] = "order"

\* C13: With no parameters the key builder returns exactly "url:" followed
\* by the resource path, with no "?".
C13_EmptyParams ==
    (IsKeyCall /\ call.params = <<>>) =>
        /\ call.result = ResourcePath
        /\ \A i \in DOMAIN call.result : call.result[i] # "?"

\* The key of place "ab" without parameters.
C13_Witness ==
    /\ call.fn = "get_reviews_cache_key"
    /\ call.params = <<>>
    /\ call.place = <<"a", "b">>
    /\ call.result = <<"url:/reviews/", "a", "b">>

\* The key k is in the review-listing namespace of the place pl: the
\* resource path of pl, alone or followed by "?" and parameters.
IsListingKeyOf(k, pl) ==
    LET path == <<"url:/reviews/">> \o pl
    IN  /\ Len(k) >= Len(path)
        /\ SubSeq(k, 1, Len(path)) = path
        /\ Len(k) > Len(path) => k[Len(path) + 1] = "?"

IsAllReviewsKey(k) == IsListingKeyOf(k, <<"a", "l", "l">>)

\* The three place-entity keys of the place pl.
EntityKeysOf(pl) ==
    { <<"hotels:">> \o pl, <<"restaurants:">> \o pl, <<"things-to-do:">> \o pl }

IsInvalidateCall == call.fn = "invalidate_caches"

\* C14: After invalidate_caches(place_id) has run with no cache command
\* failing, the cache holds no key of the place's review-listing namespace,
\* no key of the all-reviews namespace and none of the place's three entity
\* keys, and the keys were deleted by one delete call.
C14_AllNamespacesDeleted ==
    IsInvalidateCall =>
        /\ \A k \in DOMAIN call.after :
              /\ ~IsListingKeyOf(k, call.place)
              /\ ~IsAllReviewsKey(k)
              /\ k \notin EntityKeysOf(call.place)
        /\ call.deletes = 1

\* C15: invalidate_caches(X) leaves every cached review-listing entry and
\* every place-entity entry of another place Y as it was, also when X is a
\* prefix of Y.
C15_OtherPlacesKept ==
    IsInvalidateCall =>
        \A pl \in KeyPlaces \ {call.place} :
            \A k \in DOMAIN call.before :
                (IsListingKeyOf(k, pl) \/ k \in EntityKeysOf(pl)) =>
                    /\ k \in DOMAIN call.after
                    /\ call.after[k] = call.before[k]

\* The keys of the cache that invalidate_caches(pl) asks the cache service to
\* delete: the matches of its two patterns and the three entity keys.
TargetedKeys(cacheNow, pl) ==
    RedisKeys(cacheNow, place_review_pattern(pl))
        \cup RedisKeys(cacheNow, all_reviews_pattern)
        \cup (place_data_keys(pl) \cap DOMAIN cacheNow)

\* C18: invalidate_caches(place_id) run a second time leaves the cache as
\* the first run left it, and run when the cache holds none of the keys it
\* deletes it completes and changes nothing.
C18_Idempotent ==
    IsInvalidateCall =>
        /\ invalidate_caches(call.after, call.place).cache = call.after
        /\ TargetedKeys(call.before, call.place) = {}
              => call.after = call.before

\* A first run that deleted keys, and a run on a cache with other keys only.
C18_Witness ==
    /\ IsInvalidateCall
    /\ \/ call.after # call.before
       \/ /\ call.before # << >>
          /\ TargetedKeys(call.before, call.place) = {}

\* Handler p ended by an exception no except clause of the handler caught:
\* the user query of create_review, which stands before the try block,
\* raised.
UnhandledException(p) ==
    /\ Finished(p, {"create_review"})
    /\ Len(log[p]) > 0
    /\ log[p][Len(log[p])] = LogEntry("store_read", FALSE)
    /\ ~Has(p, "store_read", TRUE)

\* C19: A request whose handler ended by an unhandled exception is answered
\* by the generic error with status 500, never by another status.
C19_UnhandledIs500 ==
    \A p \in Procs :
        UnhandledException(p) => resp[p] = Response(500, "InternalServerError")

\* The rating of the review of the request r in the given rows.
StoredRating(rows, r) == FindReview(rows, r.user, r.place).rating

\* Handler p's commit has gone through in this step.
Committed(p) ==
    /\ req[p].op \in WriteOps
    /\ pc[p] = "commit"
    /\ pc'[p] \notin {"commit", "done"}

\* After the commit of a create or a delete the histogram is called next;
\* after the commit of an update it is called next exactly when a rating was
\* supplied and the stored rating has changed, and invalidate_caches is
\* called next otherwise. The old rating kept is the one stored before.
C20_AfterCommit ==
    \A p \in Procs :
        Committed(p) =>
            CASE req[p].op = "create_review" -> pc'[p] = "hist"
              [] req[p].op = "delete_review" ->
                    /\ pc'[p] = "hist"
                    /\ loc'[p].old_rating = StoredRating(store, req[p])
              [] OTHER ->
                    LET changed == /\ req[p].body.rating # Absent
                                   /\ StoredRating(store, req[p])
                                        # StoredRating(store', req[p])
                    IN  /\ loc'[p].old_rating = StoredRating(store, req[p])
                        /\ pc'[p] = IF changed THEN "hist" ELSE "inv_keys"

\* A histogram call that has gone through has applied: for a create the new
\* rating alone, for a delete the old rating alone, for an update the old
\* and the new rating.
C20_Call ==
    \A p \in Procs :
        (/\ pc[p] = "hist"
         /\ Len(log'[p]) = Len(log[p]) + 1
         /\ log'[p][Len(log'[p])] = LogEntry("hist", TRUE)) =>
            LET old == loc[p].old_rating
                new == StoredRating(store, req[p])
                h(a, b) == update_place_rating_histogram(hist, req[p].place, a, b)
            IN  CASE req[p].op = "create_review" -> hist' = h(0, new)
                  [] req[p].op = "delete_review" -> hist' = h(old, 0)
                  [] OTHER -> hist' = h(old, new) /\ old # new

\* An update that has succeeded has called invalidate_caches and the
\* preference refresh, with or without a histogram call.
C20_StillRun ==
    \A p \in Procs :
        (Finished(p, {"update_review"}) /\ resp[p].kind = "review") =>
            {"inv_keys", "pref"} \subseteq Steps(p)

\* C20: A successful create calls the histogram with the new rating only, a
\* successful delete with the old rating only, a successful update with the
\* old and the new rating exactly when a rating was supplied and differs
\* from the stored one; an update of the text alone or to the same rating
\* makes no histogram call and still runs invalidate_caches and the
\* preference refresh.
C20_HistogramArguments ==
    [](C20_StillRun) /\ [][C20_AfterCommit /\ C20_Call]_vars

\* An update of the text alone has succeeded without a histogram call.
C20_Witness ==
    \E p \in Procs :
        /\ Finished(p, {"update_review"})
        /\ resp[p].kind = "review"
        /\ req[p].body.rating = Absent
        /\ "hist" \notin Steps(p)
        /\ Has(p, "pref", TRUE)

\* Handler p returns in this step.
Returns(p) == pc[p] # "done" /\ pc'[p] = "done"

\* pages = ceil(count / size), for size > 0.
IsCeilDiv(pages, count, size) ==
    /\ pages * size >= count
    /\ (pages - 1) * size < count

\* C17: A listing request with valid parameters for a place that exists,
\* answered while no call has failed, gets status 200 and an envelope whose
\* total_count is the number of the place's reviews and whose total_pages is
\* ceil(total_count / size); when its page lies beyond the last page the
\* items are empty.
C17_Paging ==
    [][\A p \in Procs :
          (/\ Returns(p)
           /\ req[p].op = "get_place_reviews"
           /\ \E i \in 1..Len(log'[p]) : log'[p][i] = LogEntry("exists", TRUE)
           /\ faults' = 0) =>
              LET e == resp'[p].payload
                  n == Cardinality(PlaceRows(store', req[p].place))
              IN  /\ resp'[p].status = 200
                  /\ e.total_count = n
                  /\ IsCeilDiv(e.total_pages, e.total_count, req[p].size)
                  /\ req[p].page > e.total_pages => e.items = <<>>]_vars

\* The listing handler p returns after validation and the place check, and
\* no call of the store or of the cache has failed so far: the requests
\* whose answer the cache can change.
ListingAnswered(p) ==
    /\ Returns(p)
    /\ req[p].op = "get_place_reviews"
    /\ \E i \in 1..Len(log'[p]) : log'[p][i] = LogEntry("exists", TRUE)
    /\ faults' = 0

\* C16: With one request running at a time and no call failing, whatever
\* entries the cache holds or has lost, every listing is answered as the
\* store alone answers it: status 200 and the page of the place's rows that
\* the store holds. (The other handlers do not read the cache.)
C16_CacheDisposable ==
    [][\A p \in Procs :
          ListingAnswered(p) =>
              /\ resp'[p].status = 200
              /\ CurrentListing(req[p], resp'[p].payload)]_vars

Lookups == {"get_user_place_review", "get_my_place_review"}

\* Handler p's read of the store has gone through in this step.
ReadDone(p, at) ==
    /\ pc[p] = at
    /\ Len(log'[p]) = Len(log[p]) + 1
    /\ log'[p][Len(log'[p])] = LogEntry("store_read", TRUE)

NoReviewOf(rows, r) == FindReview(rows, r.user, r.place) = NoRow

\* An update or delete that finds no review of its user for its place
\* answers 404 review-not-found at once and has changed nothing.
C21_NotFound ==
    \A p \in Procs :
        (/\ req[p].op \in {"update_review", "delete_review"}
         /\ ReadDone(p, "load")
         /\ NoReviewOf(store, req[p])) =>
            /\ pc'[p] = "done"
            /\ resp'[p] = Response(404, "ReviewNotFound")
            /\ shared' = shared

\* An update or delete answered 404 review-not-found has made no commit, no
\* histogram call, no invalidation and no preference refresh.
C21_NoSideEffect ==
    \A p \in Procs :
        (/\ Finished(p, {"update_review", "delete_review"})
         /\ resp[p] = Response(404, "ReviewNotFound")) =>
            Steps(p) \subseteq {"validate", "exists", "store_read"}

\* A lookup by (U, X) that comes next after a delete of (U, X) answered with
\* success starts on a store without that review.
C21_DeletedIsGone ==
    \A p \in Procs :
        (/\ Finished(p, {"delete_review"})
         /\ resp[p] = Response(200, "deleted")
         /\ req'[p] # req[p]
         /\ req'[p].op \in Lookups
         /\ req'[p].user = req[p].user
         /\ req'[p].place = req[p].place) =>
            NoReviewOf(store', req'[p])

\* A lookup changes nothing, and answers 404 when its read finds no review.
C21_LookupNotFound ==
    \A p \in Procs :
        /\ (req[p].op \in Lookups /\ pc[p] # pc'[p] /\ req'[p] = req[p])
              => shared' = shared
        /\ (/\ req[p].op \in Lookups
            /\ ReadDone(p, "fetch")
            /\ NoReviewOf(store, req[p])) =>
               /\ pc'[p] = "done"
               /\ resp'[p].status = 404

\* C21: An update or delete by user U for place X when no review (U, X)
\* exists returns 404 review-not-found and changes nothing: no commit, no
\* histogram update, no cache invalidation, no preference refresh. After a
\* successful delete of (U, X) a lookup of the review by (U, X) returns 404.
C21_ReviewNotFound ==
    /\ [](C21_NoSideEffect)
    /\ [][C21_NotFound /\ C21_DeletedIsGone /\ C21_LookupNotFound]_vars

\* A delete answered 404 review-not-found while the place has a review of
\* another user, or none.
C21_Witness ==
    \E p \in Procs :
        /\ Finished(p, {"update_review", "delete_review"})
        /\ resp[p] = Response(404, "ReviewNotFound")
        /\ Has(p, "store_read", TRUE)

DuplicateReview == Response(400, "DuplicateReview")

\* Handler p's commit has ended in this step, and not by a store failure.
CommitEnded(p) ==
    /\ pc[p] = "commit"
    /\ pc'[p] # "commit"
    /\ faults' = faults

\* A create whose pre-check, or whose commit, meets a review its user
\* already has of the place is answered with the duplicate-review response
\* in that step, which changes nothing.
C22_Rejected ==
    \A p \in Procs :
        (/\ req[p].op = "create_review"
         /\ ~NoReviewOf(store, req[p])
         /\ ReadDone(p, "precheck") \/ CommitEnded(p)) =>
            /\ pc'[p] = "done"
            /\ resp'[p] = DuplicateReview
            /\ shared' = shared

\* The steps of a create before its commit change nothing.
C22_NothingBefore ==
    \A p \in Procs :
        (/\ req[p].op = "create_review"
         /\ pc[p] \in {"exists", "user", "precheck"}
         /\ pc'[p] # pc[p]) => shared' = shared

\* A create answered with the duplicate-review response has committed
\* nothing and made no histogram call, invalidation or preference refresh.
C22_NoSideEffect ==
    \A p \in Procs :
        (Finished(p, {"create_review"}) /\ resp[p] = DuplicateReview) =>
            /\ Steps(p) \cap PropagationSteps = {}
            /\ ~Has(p, "commit", TRUE)

\* C22: A create for a (user, place) that already has a review is rejected
\* with the same duplicate-review response whether the pre-check query or
\* the unique constraint at commit finds the review; the review there is
\* stays as it is, and no histogram update, cache invalidation or
\* preference refresh is made.
C22_DuplicateRejected ==
    /\ [](C22_NoSideEffect)
    /\ [][C22_Rejected /\ C22_NothingBefore]_vars

\* A create whose pre-check found nothing and whose commit met the review
\* another create had inserted meanwhile.
C22_Witness ==
    \E p \in Procs :
        /\ Finished(p, {"create_review"})
        /\ resp[p] = DuplicateReview
        /\ Has(p, "commit", FALSE)
        /\ ~NoReviewOf(store, req[p])

\* The number of reviews of each rating that the rows hold for the place.
RatingCounts(rows, pl) ==
    [r \in 1..5 |-> Cardinality({ x \in PlaceRows(rows, pl) : x.rating = r })]

\* No write request is in flight, and no call has failed.
WritesSettled ==
    /\ \A p \in Procs : Active(p) => req[p].op \notin WriteOps
    /\ faults = 0

\* C23: Once the write requests in flight have completed, their histogram
\* updates having gone through, the histogram of every place (increments of
\* new ratings less decrements of old ratings) counts the ratings of the
\* reviews stored for the place, whatever the interleaving of the creates,
\* updates and deletes.
C23_HistogramCoherent ==
    WritesSettled => \A pl \in Places : hist[pl] = RatingCounts(store, pl)

\* The listing request the key k is built from.
RequestOf(k) ==
    CHOOSE r \in { [place |-> pl, page |-> q[1], size |-> q[2],
                    sort_by |-> q[3], order |-> q[4]] :
                   pl \in Places, q \in ListParams } : CacheKey(r) = k

\* The entry under k is not the listing the store now gives.
StaleEntry(k) ==
    /\ k \in DOMAIN cache
    /\ ~CurrentListing(RequestOf(k), json_loads(cache[k].val))

\* Every entry in the cache carries the default expiry.
C24_EveryEntryExpires ==
    \A k \in DOMAIN cache : cache[k].ttl = 3600

\* A listing that is computed with no call failing, the cache having no
\* entry for its key, is the listing the store gives.
C24_MissIsCurrent ==
    \A p \in Procs :
        (/\ Returns(p)
         /\ req[p].op = "get_place_reviews"
         /\ pc[p] = "cache_set"
         /\ faults' = 0) =>
            /\ resp'[p].status = 200
            /\ CurrentListing(req[p], resp'[p].payload)

Min(a, b) == IF a < b THEN a ELSE b

\* What the listing of a place for given parameters has at every state of the
\* store: the page and size asked for, rows of that place only, and as many
\* items as total_count leaves for the page.
ListingOfSomeStore(r, payload) ==
    LET offset == (r.page - 1) * r.size
    IN  /\ payload.page = r.page
        /\ payload.size = r.size
        /\ \A i \in 1..Len(payload.items) : payload.items[i].place_id = r.place
        /\ Len(payload.items) = Min(r.size, Max(0, payload.total_count - offset))

\* C25: In every reachable state each cached listing entry holds a payload
\* that was the store's listing for the place and the parameters of its key
\* at some committed state of the store; so it is a listing of that place
\* for those parameters that some one state of the store can give.
C25_CachedWasTrueListing ==
    \A k \in DOMAIN cache :
        ListingOfSomeStore(RequestOf(k), json_loads(cache[k].val))

====
